---- MODULE Spec2Model ----
(***************************************************************************)
(* Model of the Crunchyroll watch-history tracker (src/src/main.rs).       *)
(* One process run is main(): credentials, login, read the cutoff file,    *)
(* scan the watch-history stream, write the report, update the cutoff.     *)
(* The file system (report files, cutoff_date.txt) persists across runs.   *)
(***************************************************************************)
EXTENDS Integers, Sequences, FiniteSets, TLC

\* ------------------------------------------------------------------ bounds
MaxTime  == 2     \* the clock and the play timestamps range over 0..MaxTime
MaxFetch == 3     \* items the provider's stream yields, over all runs
MaxRuns  == 2     \* process runs
MaxLimit == 1     \* largest value tried for the `limit` setting

Times == 0 .. MaxTime

\* Option<T> is a sequence of length at most one.
None    == << >>
Some(x) == << x >>

\* ---------------------------------------------------- the provider's media
\* What media_collection_from_id can return: a tagged media object.  Two
\* Series objects share the title "A" and differ in their attributes, an
\* Episode carries the title "A" and a Movie the title "B" as well, and
\* "Other" is any other variant of MediaCollection (Season, ...).
Ids == 1 .. 6

Media(id) ==
  CASE id = 1 -> [kind |-> "Series", title |-> "A", slug_title |-> "a",
                  description |-> "d1", extended_description |-> "x1",
                  episode_count |-> 12, season_count |-> 1,
                  content_provider |-> Some("P"), keywords |-> <<"k">>,
                  poster_tall |-> <<"t0", "t1", "t2">>]
    [] id = 2 -> [kind |-> "Series", title |-> "A", slug_title |-> "a",
                  description |-> "d2", extended_description |-> "x2",
                  episode_count |-> 24, season_count |-> 2,
                  content_provider |-> None, keywords |-> << >>,
                  poster_tall |-> <<"t0", "t1">>]
    [] id = 3 -> [kind |-> "Series", title |-> "B", slug_title |-> "b",
                  description |-> "d3", extended_description |-> "x3",
                  episode_count |-> 3, season_count |-> 1,
                  content_provider |-> None, keywords |-> <<"k">>,
                  poster_tall |-> <<"u0", "u1", "u2", "u3">>]
    [] id = 4 -> [kind |-> "Movie", title |-> "B"]
    [] id = 5 -> [kind |-> "Episode", title |-> "A"]
    [] id = 6 -> [kind |-> "Other", title |-> "A"]

Titles == {"A", "B"}

\* A watch-history entry: the fields of WatchHistoryEntry that main reads.
Entries == [parent_id : Ids, date_played : Times]

\* ------------------------------------------------------- cutoff_date.txt
\* A text is a sequence of tokens; Display of a DateTime<Utc> prints the
\* instant followed by " UTC".
NoFile == "NoFile"

Display(t) == << ToString(t), " ", "UTC" >>

IsSpace(c) == c \in {" ", "\n"}

RECURSIVE trim_start(_)
trim_start(s) ==
  IF s # << >> /\ IsSpace(Head(s)) THEN trim_start(Tail(s)) ELSE s

RECURSIVE trim_end(_)
trim_end(s) ==
  IF s # << >> /\ IsSpace(s[Len(s)]) THEN trim_end(SubSeq(s, 1, Len(s) - 1)) ELSE s

trim(s) == trim_end(trim_start(s))

\* str::parse::<DateTime<Utc>>: the relaxed RFC 3339 reading, which takes
\* the offset as "Z" or as "UTC" after optional white space.
ParseDateTime(s) ==
  LET hits == {t \in Times : s \in {Display(t), << ToString(t), "UTC" >>,
                                    << ToString(t), "Z" >>}}
  IN  IF hits = {} THEN [ok |-> FALSE] ELSE [ok |-> TRUE, val |-> CHOOSE t \in hits : TRUE]

\* read_cutoff_date: Ok(None), Ok(Some(date)) or Err.
read_cutoff_date(file) ==
  IF file = NoFile THEN [ok |-> TRUE, val |-> None]
  ELSE LET date_str == trim(file)
       IN  IF date_str = << >> THEN [ok |-> TRUE, val |-> None]
           ELSE LET p == ParseDateTime(date_str)
                IN  IF p.ok THEN [ok |-> TRUE, val |-> Some(p.val)]
                    ELSE [ok |-> FALSE]

\* The match in main: an unreadable cutoff is treated as no cutoff.
cutoff_of(file) ==
  LET r == read_cutoff_date(file) IN IF r.ok THEN r.val ELSE None

\* update_cutoff_date: writeln!(file, "{}", new_cutoff) on a truncated file.
update_cutoff_date(new_cutoff) == Display(new_cutoff) \o << "\n" >>

\* ------------------------------------------------------------ report files
FileName(n) ==
  IF n = 0 THEN "show_data.json" ELSE "show_data-" \o ToString(n) \o ".json"

RECURSIVE unique_loop(_, _, _)
unique_loop(fs, new_name, counter) ==
  IF new_name \in DOMAIN fs
    THEN unique_loop(fs, "show_data-" \o ToString(counter) \o ".json", counter + 1)
    ELSE new_name

\* Faulty variant of get_unique_filename: the existence loop is missing.
get_unique_filename_base(fs) == "show_data.json"

get_unique_filename(fs) == unique_loop(fs, "show_data.json", 1)

\* ------------------------------------------------------------ aggregation
\* The json! object built from a Series.
series_data(series) ==
  [title               |-> series.title,
   slug                |-> series.slug_title,
   description         |-> series.description,
   extendedDescription |-> series.extended_description,
   episodes            |-> series.episode_count,
   seasons             |-> series.season_count,
   publisher           |-> IF series.content_provider = None THEN "Unknown"
                           ELSE series.content_provider[1],
   keywords            |-> series.keywords,
   posterTall          |-> IF Len(series.poster_tall) >= 3 THEN series.poster_tall[3]
                           ELSE "No image available"]

Classified(m) == m.kind \in {"Movie", "Series", "Episode"}

\* Faulty variants of count_entry: the count is set rather than incremented;
\* the or_insert is missing.
count_entry_reset(cnt, title) ==
  [t \in DOMAIN cnt \cup {title} |-> IF t = title THEN 1 ELSE cnt[t]]

count_entry_noinsert(cnt, title) ==
  IF title \in DOMAIN cnt THEN [cnt EXCEPT ![title] = @ + 1] ELSE cnt

\* title_episode_counts.entry(title).or_insert(0) followed by += 1
count_entry(cnt, title) ==
  IF title \in DOMAIN cnt THEN [cnt EXCEPT ![title] = @ + 1]
  ELSE cnt @@ (title :> 1)

\* Faulty variant of extract_series: the contains_key test is missing.
extract_series_overwrite(meta, m) ==
  IF m.kind = "Series"
    THEN [t \in DOMAIN meta \cup {m.title} |->
            IF t = m.title THEN series_data(m) ELSE meta[t]]
    ELSE meta

\* the insert-if-absent of extracted_series_data
extract_series(meta, m) ==
  IF m.kind = "Series" /\ m.title \notin DOMAIN meta
    THEN meta @@ (m.title :> series_data(m))
    ELSE meta

\* Faulty variant of before_cutoff: <= for <.
before_cutoff_le(entry_date, cutoff) ==
  cutoff # None /\ entry_date <= cutoff[1]

\* the entry is before the cutoff
before_cutoff(entry_date, cutoff) ==
  cutoff # None /\ entry_date < cutoff[1]

\* limit reached (checked after each item the stream yields)
limit_reached(lim, total) == lim # None /\ total >= lim[1]

\* Faulty variant of output_data: the count is looked up under the wrong key.
output_data_zero(meta, cnt, order) ==
  [i \in 1 .. Len(order) |->
     [series |-> meta[order[i]],
      episodesWatched |-> IF meta[order[i]].slug \in DOMAIN cnt
                            THEN cnt[meta[order[i]].slug] ELSE 0]]

\* The records of the report, in the iteration order `order` of the map.
output_data(meta, cnt, order) ==
  [i \in 1 .. Len(order) |->
     [series |-> meta[order[i]],
      episodesWatched |-> IF order[i] \in DOMAIN cnt THEN cnt[order[i]] ELSE 0]]

\* The iteration orders of a HashMap with key set S.
Orders(S) ==
  {o \in UNION {[1 .. n -> S] : n \in {Cardinality(S)}} :
      \A i, j \in DOMAIN o : i # j => o[i] # o[j]}

\* ------------------------------------------------------------------ state
VARIABLES
  pc,                    \* where main is: start, authed, scan, report, cutoff,
                         \* done (Ok(())) or aborted (panic or Err)
  runs,                  \* process runs started so far
  now,                   \* the UTC clock
  limit,                 \* the `limit` setting of main: None as written, Some(n)
                         \* once set as the comment at line 44 describes
  env,                   \* this run's environment: credentials set, login accepted
  cutoff_file,           \* content of cutoff_date.txt, or NoFile
  files,                 \* the report files: name -> content
  cutoff_date,           \* main's locals
  script_run_time,
  title_episode_counts,
  extracted_series_data,
  total_show_count,
  fetched,               \* items the stream has yielded, over all runs
  \* what happened in the run, recorded to state the properties
  qualified,             \* title -> resolved Movie/Series/Episode entries not before the cutoff
  first_series,          \* title -> parent_id of the first such entry that is a Series
  old_seen,              \* a resolved Movie/Series/Episode entry was before the cutoff
  eq_seen,               \* a resolved Movie/Series/Episode entry was played at the cutoff
  resighted,             \* a counted Series came after another Series object of its title
  lookup_failed,         \* a lookup of an entry's media failed
  stream_ended,          \* the stream yielded None
  limit_hit,             \* the limit check left the loop
  exit,                  \* why the run aborted
  written,               \* every report write so far
  cutoff_writes,         \* writes of cutoff_date.txt in this run
  report_done,           \* the report of this run has been written
  start_fs               \* cutoff_file, files and fetched when the run started

locals == << cutoff_date, script_run_time, title_episode_counts,
             extracted_series_data, total_show_count >>
disk   == << cutoff_file, files >>
seen   == << qualified, first_series, old_seen, eq_seen, resighted >>
hist   == << stream_ended, limit_hit, exit, lookup_failed, written,
             cutoff_writes, report_done, start_fs >>
vars   == << pc, runs, now, limit, env, fetched, locals, disk, seen, hist >>

Empty == << >>          \* the empty map

\* A report left by an earlier use of the tool.
OldReport == << "old" >>

Envs == [username : BOOLEAN, password : BOOLEAN, auth : BOOLEAN]

Init ==
  /\ pc = "start"
  /\ runs = 1
  /\ now = 1
  /\ limit \in {None} \cup {Some(n) : n \in 1 .. MaxLimit}
  /\ env \in Envs
  /\ cutoff_file \in {NoFile, << "\n" >>, << "x", "\n" >>, update_cutoff_date(1)}
  /\ files \in {Empty, FileName(1) :> OldReport}
  /\ cutoff_date = None
  /\ script_run_time = 0
  /\ title_episode_counts = Empty
  /\ extracted_series_data = Empty
  /\ total_show_count = 0
  /\ fetched = 0
  /\ qualified = [t \in Titles |-> 0]
  /\ first_series = Empty
  /\ old_seen = FALSE
  /\ eq_seen = FALSE
  /\ resighted = FALSE
  /\ limit_hit = FALSE
  /\ lookup_failed = FALSE
  /\ stream_ended = FALSE
  /\ exit = "none"
  /\ written = << >>
  /\ cutoff_writes = 0
  /\ report_done = FALSE
  /\ start_fs = << cutoff_file, files, 0 >>

\* ---------------------------------------------------------------- actions
\* main returns or panics: its maps are dropped, and with them the tallies
\* kept of the scan.  (script_run_time is kept, to compare the cutoff file
\* with.)
Exit ==
  /\ cutoff_date' = None
  /\ title_episode_counts' = Empty
  /\ extracted_series_data' = Empty
  /\ total_show_count' = 0
  /\ qualified' = [t \in Titles |-> 0]
  /\ first_series' = Empty
  /\ UNCHANGED << script_run_time, old_seen, eq_seen, resighted >>

\* env::var(..).expect(..): a missing credential panics.
CredentialsMissing ==
  /\ pc = "start"
  /\ ~env.username \/ ~env.password
  /\ pc' = "aborted"
  /\ exit' = IF ~env.username THEN "CR_USERNAME" ELSE "CR_PASSWORD"
  /\ UNCHANGED << runs, now, limit, env, fetched, locals, disk, seen,
                  stream_ended, limit_hit, lookup_failed, written, cutoff_writes,
                  report_done, start_fs >>

\* Faulty variant of Login: the result of the login is not propagated.
Login_unchecked ==
  /\ pc = "start"
  /\ env.username /\ env.password
  /\ pc' = "authed"
  /\ UNCHANGED << runs, now, limit, env, fetched, locals, disk, seen, hist >>

\* login_with_credentials(..).await? with both credentials present.
Login ==
  /\ pc = "start"
  /\ env.username /\ env.password
  /\ IF env.auth THEN pc' = "authed" /\ exit' = exit
                 ELSE pc' = "aborted" /\ exit' = "auth"
  /\ UNCHANGED << runs, now, limit, env, fetched, locals, disk, seen,
                  stream_ended, limit_hit, lookup_failed, written, cutoff_writes,
                  report_done, start_fs >>

\* Lines 55-81: read the cutoff, open the stream, take the run time.
Prepare ==
  /\ pc = "authed"
  /\ cutoff_date' = cutoff_of(cutoff_file)
  /\ title_episode_counts' = Empty
  /\ extracted_series_data' = Empty
  /\ script_run_time' = now
  /\ total_show_count' = 0
  /\ pc' = "scan"
  /\ UNCHANGED << runs, now, limit, env, fetched, disk, seen, hist >>

\* One iteration of the while loop is one action, by its outcome:
\* history_stream.next(), the limit check, the lookup of the entry's media,
\* the classification, the cutoff check, the counting and the extraction.

\* history_stream.next() yields None: the loop ends.
StreamEnd ==
  /\ pc = "scan"
  /\ pc' = "report"
  /\ stream_ended' = TRUE
  /\ UNCHANGED << runs, now, limit, env, fetched, locals, disk, seen, limit_hit,
                  exit, lookup_failed, written, cutoff_writes, report_done, start_fs >>

\* The stream can yield a further item, and the limit is not reached.
Below ==
  /\ pc = "scan"
  /\ fetched < MaxFetch
  /\ ~limit_reached(limit, total_show_count)

\* The stream yields an item, Ok or Err, and the limit is reached: break.
LimitBreak ==
  /\ pc = "scan"
  /\ fetched < MaxFetch
  /\ limit_reached(limit, total_show_count)
  /\ fetched' = fetched + 1
  /\ pc' = "report"
  /\ limit_hit' = TRUE
  /\ UNCHANGED << runs, now, limit, env, locals, disk, seen, stream_ended, exit,
                  lookup_failed, written, cutoff_writes, report_done, start_fs >>

\* The stream yields Some(Err(err)): eprintln, next iteration.
StreamErr ==
  /\ Below
  /\ fetched' = fetched + 1
  /\ UNCHANGED << pc, runs, now, limit, env, locals, disk, seen, hist >>

\* The stream yields Some(Ok(entry)) and media_collection_from_id(..).await?
\* fails: main returns the error.
LookupFail ==
  /\ Below
  /\ fetched' = fetched + 1
  /\ lookup_failed' = TRUE
  /\ pc' = "aborted"
  /\ exit' = "lookup"
  /\ Exit
  /\ UNCHANGED << runs, now, limit, env, disk, stream_ended, limit_hit, written,
                  cutoff_writes, report_done, start_fs >>

\* What the resolved entry e with media m is, whatever main does with it.
Old(e, m) ==
  Classified(m) /\ cutoff_date # None /\ e.date_played < cutoff_date[1]

Qualifies(e, m) ==
  Classified(m) /\ (cutoff_date = None \/ e.date_played >= cutoff_date[1])

Resolved(e, m) ==
  /\ old_seen' = (old_seen \/ Old(e, m))
  /\ eq_seen' = (eq_seen \/ (Classified(m) /\ cutoff_date = Some(e.date_played)))
  /\ resighted' = (resighted \/ (/\ Qualifies(e, m)
                                  /\ m.kind = "Series"
                                  /\ m.title \in DOMAIN first_series
                                  /\ first_series[m.title] # e.parent_id))
  /\ qualified' = IF Qualifies(e, m) THEN [qualified EXCEPT ![m.title] = @ + 1]
                  ELSE qualified
  /\ first_series' =
       IF Qualifies(e, m) /\ m.kind = "Series" /\ m.title \notin DOMAIN first_series
         THEN first_series @@ (m.title :> e.parent_id)
         ELSE first_series

\* The stream yields Some(Ok(e)) and the lookup of its media succeeds.
Yield(e) ==
  /\ fetched' = fetched + 1
  /\ Resolved(e, Media(e.parent_id))

\* The media is none of Movie, Series, Episode: continue.
SkipOther ==
  /\ Below
  /\ \E e \in Entries :
    /\ ~Classified(Media(e.parent_id))
    /\ Yield(e)
    /\ UNCHANGED << pc, runs, now, limit, env, locals, disk, hist >>

\* The entry is before the cutoff: break.
CutoffStop ==
  /\ Below
  /\ \E e \in Entries :
    /\ Classified(Media(e.parent_id))
    /\ before_cutoff(e.date_played, cutoff_date)
    /\ Yield(e)
    /\ pc' = "report"
    /\ UNCHANGED << runs, now, limit, env, locals, disk, hist >>

\* The entry is counted, and its series extracted if it is new.
CountEntry ==
  /\ Below
  /\ \E e \in Entries :
    LET m == Media(e.parent_id) IN
      /\ Classified(m)
      /\ ~before_cutoff(e.date_played, cutoff_date)
      /\ Yield(e)
      /\ title_episode_counts' = count_entry(title_episode_counts, m.title)
      /\ extracted_series_data' = extract_series(extracted_series_data, m)
      /\ total_show_count' = total_show_count + 1
      /\ UNCHANGED << pc, runs, now, limit, env, cutoff_date, script_run_time,
                      disk, hist >>

\* Lines 149-167: pick the name, create the file, write the records.
WriteReport ==
  /\ pc = "report"
  /\ \E order \in Orders(DOMAIN extracted_series_data) :
       LET filename == get_unique_filename(files)
           content  == output_data(extracted_series_data, title_episode_counts, order)
       IN  /\ files' = [n \in DOMAIN files \cup {filename} |->
                          IF n = filename THEN content ELSE files[n]]
           /\ written' = Append(written, [name |-> filename, content |-> content,
                                          before |-> DOMAIN files])
  /\ report_done' = TRUE
  /\ pc' = "cutoff"
  /\ UNCHANGED << runs, now, limit, env, fetched, locals, cutoff_file, seen,
                  stream_ended, limit_hit, exit, lookup_failed, cutoff_writes, start_fs >>

\* File::create(&filename)? fails, no file is made: main returns the error.
ReportIoFail ==
  /\ pc = "report"
  /\ pc' = "aborted"
  /\ exit' = "report_io"
  /\ Exit
  /\ UNCHANGED << runs, now, limit, env, fetched, disk, stream_ended, limit_hit,
                  lookup_failed, written, cutoff_writes, report_done, start_fs >>

\* Faulty variant of UpdateCutoff: the completion time is written.
UpdateCutoff_completion_time ==
  /\ pc = "cutoff"
  /\ cutoff_file' = update_cutoff_date(now)
  /\ cutoff_writes' = cutoff_writes + 1
  /\ pc' = "done"
  /\ Exit
  /\ UNCHANGED << runs, now, limit, env, fetched, files, stream_ended, limit_hit,
                  exit, lookup_failed, written, report_done, start_fs >>

\* update_cutoff_date(script_run_time)? succeeds: main returns Ok(()).
UpdateCutoff ==
  /\ pc = "cutoff"
  /\ cutoff_file' = update_cutoff_date(script_run_time)
  /\ cutoff_writes' = cutoff_writes + 1
  /\ pc' = "done"
  /\ Exit
  /\ UNCHANGED << runs, now, limit, env, fetched, files, stream_ended, limit_hit, exit,
                  lookup_failed, written, report_done, start_fs >>

\* OpenOptions::open("cutoff_date.txt")? fails: main returns the error.
CutoffIoFail ==
  /\ pc = "cutoff"
  /\ pc' = "aborted"
  /\ exit' = "cutoff_io"
  /\ Exit
  /\ UNCHANGED << runs, now, limit, env, fetched, disk, stream_ended, limit_hit,
                  lookup_failed, written, cutoff_writes, report_done, start_fs >>

\* Time passes.  The run reads the clock once, at line 78, so time is let
\* pass right before that read and, for the time the run takes, right before
\* the cutoff is written.
Tick ==
  /\ pc \in {"authed", "cutoff"}
  /\ now < MaxTime
  /\ now' = now + 1
  /\ UNCHANGED << pc, runs, limit, env, fetched, locals, disk, seen, hist >>

\* The program is started again on the same file system.
NewRun ==
  /\ pc \in {"done", "aborted"}
  /\ runs < MaxRuns
  /\ runs' = runs + 1
  /\ env' \in Envs
  /\ pc' = "start"
  /\ cutoff_date' = None
  /\ script_run_time' = 0
  /\ title_episode_counts' = Empty
  /\ extracted_series_data' = Empty
  /\ total_show_count' = 0
  /\ qualified' = [t \in Titles |-> 0]
  /\ first_series' = Empty
  /\ old_seen' = FALSE
  /\ eq_seen' = FALSE
  /\ resighted' = FALSE
  /\ limit_hit' = FALSE
  /\ lookup_failed' = FALSE
  /\ stream_ended' = FALSE
  /\ exit' = "none"
  /\ cutoff_writes' = 0
  /\ report_done' = FALSE
  /\ start_fs' = << cutoff_file, files, fetched >>
  /\ UNCHANGED << now, limit, fetched, disk, written >>

Next ==
  \/ CredentialsMissing
  \/ Login
  \/ Prepare
  \/ StreamEnd
  \/ LimitBreak
  \/ StreamErr
  \/ LookupFail
  \/ SkipOther
  \/ CutoffStop
  \/ CountEntry
  \/ WriteReport
  \/ ReportIoFail
  \/ UpdateCutoff
  \/ CutoffIoFail
  \/ Tick
  \/ NewRun

Spec == Init /\ [][Next]_vars

\* ------------------------------------------------------------- properties
counts   == title_episode_counts
metadata == extracted_series_data

\* The loop has been left in this run.
ScanOver ==
  \/ pc \in {"report", "cutoff", "done"}
  \/ pc = "aborted" /\ exit \in {"lookup", "report_io", "cutoff_io"}

\* The cutoff store yielded no cutoff to this run.
NoCutoff == read_cutoff_date(start_fs[1]) \in {[ok |-> TRUE, val |-> None], [ok |-> FALSE]}

\* C1: for every title t, counts[t] is the number of entries consumed whose
\* media resolved to a Movie, Series or Episode titled t and that were not
\* played before the cutoff; a title with no such entry is not a key of
\* counts.
C1_CountsMatchHistory ==
  /\ DOMAIN counts \subseteq Titles
  /\ \A t \in Titles :
       IF qualified[t] = 0 THEN t \notin DOMAIN counts
       ELSE t \in DOMAIN counts /\ counts[t] = qualified[t]

\* The scan ended at the cutoff after two entries titled "A" were counted.
C1_Witness ==
  /\ pc = "report"
  /\ old_seen
  /\ qualified["A"] = 2
  /\ counts = ("A" :> 2)

\* C2: the step that resolves the first Movie/Series/Episode entry played
\* before the cutoff leaves the loop without counting or extracting anything;
\* from then on the run fetches, counts and extracts nothing; the step that
\* resolves an entry played exactly at the cutoff counts it and goes on.
C2_Step ==
  /\ (~old_seen /\ old_seen') =>
        /\ pc' = "report"
        /\ UNCHANGED << counts, metadata, total_show_count >>
  /\ (old_seen /\ runs' = runs) =>
        /\ fetched' = fetched
        /\ pc' # "scan"
        /\ counts' \in {counts, Empty}
        /\ metadata' \in {metadata, Empty}
  /\ (~eq_seen /\ eq_seen') =>
        /\ pc' = "scan"
        /\ total_show_count' = total_show_count + 1
        /\ \E t \in Titles : t \in DOMAIN counts' /\ counts' # counts

\* C2, as a property of every step: the first Movie/Series/Episode entry
\* played before the cutoff ends the scan uncounted, nothing is fetched,
\* counted or extracted after it, and an entry played at the cutoff is counted.
C2_CutoffStopsScan == [][C2_Step]_vars

\* An entry played at the cutoff and a later one were counted, then the scan
\* stopped at an entry played before the cutoff.
C2_Witness ==
  /\ pc = "report"
  /\ old_seen
  /\ eq_seen
  /\ total_show_count = 2
  /\ cutoff_date # None

\* C3: in a run whose cutoff store yields no cutoff, the loop is left only
\* because the stream is exhausted or the limit is reached.
C3_NoCutoffScanEnds ==
  (NoCutoff /\ ScanOver) => (~old_seen /\ (stream_ended \/ limit_hit))

\* C4: after a failed lookup of an entry's media the run goes on: it is
\* scanning, writing its files or finished, and it aborts for no reason
\* other than a later I/O failure.
C4_LookupFailureRecoverable ==
  lookup_failed =>
    \/ pc \in {"scan", "report", "cutoff", "done"}
    \/ pc = "aborted" /\ exit \in {"report_io", "cutoff_io"}

\* C5: the keys of metadata are the titles of the counted Series entries, and
\* metadata[t] is the data of the first counted Series entry titled t,
\* whatever entries titled t came later.
C5_MetadataWriteOnce ==
  /\ DOMAIN metadata = DOMAIN first_series
  /\ \A t \in DOMAIN metadata :
       LET first == Media(first_series[t]) IN
         /\ first.kind = "Series"
         /\ metadata[t].title = t
         /\ metadata[t].description = first.description
         /\ metadata[t].extendedDescription = first.extended_description
         /\ metadata[t].episodes = first.episode_count
         /\ metadata[t].seasons = first.season_count
         /\ metadata[t].keywords = first.keywords

\* Series 1 titled "A" was extracted, then the other Series object titled "A"
\* was counted.
C5_Witness ==
  /\ pc = "scan"
  /\ resighted
  /\ "A" \in DOMAIN first_series
  /\ first_series["A"] = 1
  /\ metadata["A"].description = "d1"
  /\ counts["A"] = 2

\* C6: every key of metadata is a key of counts with a count of at least 1.
C6_MetadataKeysCounted ==
  \A t \in DOMAIN metadata : t \in DOMAIN counts /\ counts[t] >= 1

\* Both maps are non-empty and a counted title has no metadata.
C6_Witness ==
  /\ DOMAIN metadata = {"A"}
  /\ DOMAIN counts = {"A", "B"}

\* The report this run wrote.
LastReport == files[written[Len(written)].name]

\* C7: the report written has exactly one record per key t of metadata, made
\* of metadata[t] and counts[t], and no other record.
C7_ReportJoinsMetadataAndCounts ==
  pc = "cutoff" =>
    /\ Len(LastReport) = Cardinality(DOMAIN metadata)
    /\ \A t \in DOMAIN metadata :
         \E i \in DOMAIN LastReport :
           /\ LastReport[i] = [series |-> metadata[t], episodesWatched |-> counts[t]]
           /\ \A j \in DOMAIN LastReport :
                LastReport[j].series.title = t => j = i
    /\ \A i \in DOMAIN LastReport : LastReport[i].series.title \in DOMAIN metadata

\* No cutoff, a Series titled "A" twice and a Movie once: one record, for
\* "A", with episodesWatched 2.
C7_Witness ==
  /\ pc = "cutoff"
  /\ NoCutoff
  /\ counts = ("A" :> 2) @@ ("B" :> 1)
  /\ first_series = ("A" :> 1)
  /\ Len(LastReport) = 1
  /\ LastReport[1].series.title = "A"
  /\ LastReport[1].episodesWatched = 2

\* The name a report written on the names `existing` must get.
FreeName(existing) ==
  FileName(CHOOSE n \in 0 .. Cardinality(existing) :
             /\ FileName(n) \notin existing
             /\ \A k \in 0 .. n - 1 : FileName(k) \in existing)

\* C8: every report write took the first free name of show_data.json,
\* show_data-1.json, ..., a name no file had; every file written is still
\* there with the content written, every other file has the content it had
\* from the start, and no two writes used the same name.
C8_ReportsNeverOverwritten ==
  /\ \A i \in DOMAIN written :
       /\ written[i].name \notin written[i].before
       /\ written[i].name = FreeName(written[i].before)
       /\ written[i].before \subseteq DOMAIN files
       /\ written[i].name \in DOMAIN files
       /\ files[written[i].name] = written[i].content
  /\ \A i, j \in DOMAIN written : i # j => written[i].name # written[j].name
  /\ \A n \in DOMAIN files :
       (\A i \in DOMAIN written : written[i].name # n) => files[n] = OldReport

\* Two runs wrote different reports next to an older show_data-1.json.
C8_Witness ==
  /\ Len(written) = 2
  /\ written[1].name = "show_data.json"
  /\ written[2].name = "show_data-2.json"
  /\ written[1].content # written[2].content
  /\ files["show_data-1.json"] = OldReport

\* C9: a run that ends normally has written the cutoff file once, after its
\* report, and the next read of the file yields the time taken at line 78,
\* which is no later than any time at which the run was scanning.
C9_CutoffIsRunStart ==
  /\ cutoff_writes > 0 => report_done /\ pc = "done"
  /\ pc = "done" =>
       /\ cutoff_writes = 1
       /\ read_cutoff_date(cutoff_file) = [ok |-> TRUE, val |-> Some(script_run_time)]
  /\ pc \in {"scan", "report", "cutoff", "done"} => script_run_time <= now

\* A run without a cutoff file ended normally some time after it had started.
C9_Witness ==
  /\ pc = "done"
  /\ start_fs[1] = NoFile
  /\ script_run_time = 1
  /\ now > script_run_time
  /\ cutoff_file = << "1", " ", "UTC", "\n" >>

\* C10: a run with a credential missing or with a login that fails does
\* nothing but abort: it fetches no entry, creates no report and leaves the
\* cutoff file as it was.
C10_FatalBeforeScan ==
  (~env.username \/ ~env.password \/ ~env.auth) =>
    /\ pc \in {"start", "aborted"}
    /\ pc = "aborted" => exit \in {"CR_USERNAME", "CR_PASSWORD", "auth"}
    /\ fetched = start_fs[3]
    /\ cutoff_file = start_fs[1]
    /\ files = start_fs[2]
    /\ ~report_done
    /\ cutoff_writes = 0

\* After a run that wrote its files, a run is refused at the login.
C10_Witness ==
  /\ pc = "aborted"
  /\ exit = "auth"
  /\ runs = 2
  /\ Len(written) = 1
  /\ cutoff_file # NoFile

====
